---------------------------- MODULE Spec2Model ----------------------------
(***************************************************************************)
(* Model of the eli5 explanation formatters:                               *)
(*   eli5/formatters/text.py   (format_as_text and its block helpers)      *)
(*   eli5/formatters/html.py   (format_as_html, weighted-span rendering,   *)
(*                              the colour/opacity encoder)                *)
(* The formatters are pure functions.  Every specification below draws an  *)
(* input in Init (pc = "start") and applies one formatter to it.           *)
(*                                                                         *)
(* Numbers.  Weights are integers (the unit is arbitrary, the formatters   *)
(* only use ratios weight / weight_range).  Lightness and opacity are      *)
(* fixed-point: lightness in 1/1000, opacity in 1/100 (the two decimals    *)
(* that '{:.2f}' prints), merged character weights and weight ranges in    *)
(* 1/DensityScale of the weight unit.                                      *)
(*                                                                         *)
(* Values.  A function that can raise returns Ok(value) or                 *)
(* Raise(exception).  The formatters test optional values for truth only   *)
(* ("if t.weighted_spans", "explanation.targets or []", "if expl.error"),  *)
(* so None and the empty value of the same kind are one value here: ""     *)
(* for a string and <<>> for a list; an optional number is <<>> or <<x>>.  *)
(***************************************************************************)
EXTENDS Integers, Sequences, FiniteSets, TLC

VARIABLES pc, expl, args, out

vars == <<pc, expl, args, out>>

\* None where a list (or another non-string value) may stand
None == <<>>

ZeroDivisionError == "ZeroDivisionError"

Ok(v) == [exc |-> "", val |-> v]

Raise(e) == [exc |-> e, val |-> <<>>]

Raised(r) == r.exc # ""

\* an Explanation with every optional field absent
BaseExplanation ==
    [error |-> "", method |-> "", description |-> "",
     is_regression |-> FALSE, targets |-> None,
     feature_importances |-> None, decision_tree |-> "",
     transition_features |-> None]

\* the values of fields.ALL
ALL == <<"method", "description", "transition_features", "targets",
         "feature_importances", "decision_tree">>

Abs(x) == IF x < 0 THEN -x ELSE x

Range(s) == {s[i] : i \in DOMAIN s}

SeqsUpTo(S, n) == UNION {[1..k -> S] : k \in 0..n}

\* ---------------------------------------------------------------- bounds
\* largest absolute weight of a feature or span entry
MaxWeight == 2

\* ------------------------------------------------- colour/opacity encoder
\* fixed-point scale of the two roots whose product is x ** 0.7
RootScale == 10

\* floor(RootScale * (n/d) ** (1/2))
ISqrt(n, d) ==
    CHOOSE a \in 0..(RootScale * (n + 1)) :
        /\ a * a * d <= n * RootScale * RootScale
        /\ (a + 1) * (a + 1) * d > n * RootScale * RootScale

P5(x) == x * x * x * x * x

\* floor(RootScale * (n/d) ** (1/5))
IRoot5(n, d) ==
    CHOOSE b \in 0..(RootScale * (n + 1)) :
        /\ P5(b) * d <= n * P5(RootScale)
        /\ P5(b + 1) * d > n * P5(RootScale)

\* (n/d) ** 0.7 in 1/(RootScale^2), as x**0.5 * x**0.2
Pow07(n, d) == ISqrt(n, d) * IRoot5(n, d)

_hue(weight) == IF weight > 0 THEN 120 ELSE 0

\* weight_color_hsl with the lightness taken as 1 - min_lightness * rel_weight
weight_color_hsl_scaled(weight, weight_range, min_lightness) ==
    IF weight_range = 0 THEN Raise(ZeroDivisionError)
    ELSE Ok(<<_hue(weight), 1,
              1000 - (min_lightness * Pow07(Abs(weight), weight_range))
                         \div (RootScale * RootScale)>>)

\* min_lightness is in 1/1000 (0.8 -> 800); the result's lightness too
weight_color_hsl(weight, weight_range, min_lightness) ==
    IF weight_range = 0 THEN Raise(ZeroDivisionError)
    ELSE LET hue == _hue(weight)
             saturation == 1
             rel_weight == Pow07(Abs(weight), weight_range)
             lightness == 1000 - ((1000 - min_lightness) * rel_weight)
                                    \div (RootScale * RootScale)
         IN  Ok(<<hue, saturation, lightness>>)

\* the opacity computed on the signed weight, without abs()
_weight_opacity_signed(weight, weight_range) ==
    IF weight_range = 0 THEN Raise(ZeroDivisionError)
    ELSE LET min_opacity == 80
         IN  Ok(min_opacity +
                ((100 - min_opacity) * 2 * weight + weight_range)
                    \div (2 * weight_range))

\* opacity in 1/100, rounded to the nearest 1/100 as '{:.2f}' prints it; an
\* exact tie, which Python settles by the binary value of the float, is
\* taken up
_weight_opacity(weight, weight_range) ==
    IF weight_range = 0 THEN Raise(ZeroDivisionError)
    ELSE LET min_opacity == 80
         IN  Ok(min_opacity +
                ((100 - min_opacity) * 2 * Abs(weight) + weight_range)
                    \div (2 * weight_range))


\* min((fw.weight for fw in ws), key=abs): the first entry of least |weight|
MinByAbs(ws) ==
    LET i == CHOOSE i \in DOMAIN ws :
                 /\ \A j \in DOMAIN ws : Abs(ws[i]) <= Abs(ws[j])
                 /\ \A j \in 1..(i - 1) : Abs(ws[j]) > Abs(ws[i])
    IN  ws[i]

\* ws is the sequence of the weights fw.weight of the remaining rows
remaining_weight_color_hsl(ws, weight_range, pos_neg) ==
    LET sign == IF pos_neg = "pos" THEN 1 ELSE -1
    IN  IF ws = <<>> /\ weight_range = 0
            THEN weight_color_hsl(sign, 1, 800)
        ELSE IF ws = <<>>
            THEN weight_color_hsl(sign * weight_range, weight_range, 800)
        ELSE weight_color_hsl(MinByAbs(ws), weight_range, 800)

\* ------------------------------------------------------- weighted spans
\* A WeightedSpans value is [analyzer, document, weighted_spans, vec_name];
\* document is a sequence of characters, weighted_spans a sequence of
\* entries <<token, ranges, weight>> with ranges a sequence of half-open
\* <<start, end>> character offsets (0-based).

\* longest document
MaxDocLen == 2

\* most entries of one WeightedSpans
MaxEntries == 2

RECURSIVE Factorial(_)
Factorial(n) == IF n <= 1 THEN 1 ELSE n * Factorial(n - 1)

\* character weights and weight ranges are kept in 1/DensityScale of the
\* weight unit, so that weight / (number of covered characters) is exact
DensityScale == Factorial(MaxDocLen)

RECURSIVE SumSeq(_)
SumSeq(s) == IF s = <<>> THEN 0 ELSE Head(s) + SumSeq(Tail(s))

\* number of characters an entry covers
CoveredChars(entry) ==
    SumSeq([r \in DOMAIN entry[2] |-> entry[2][r][2] - entry[2][r][1]])

\* char_weights[start:end] += weight
SliceAdd(char_weights, start, end, weight) ==
    [i \in DOMAIN char_weights |->
        IF start < i /\ i <= end THEN char_weights[i] + weight
                                 ELSE char_weights[i]]

\* char_weights[start:end] = weight
SliceSet(char_weights, start, end, weight) ==
    [i \in DOMAIN char_weights |->
        IF start < i /\ i <= end THEN weight ELSE char_weights[i]]

RECURSIVE AddRanges(_, _, _)
AddRanges(char_weights, ranges, weight) ==
    IF ranges = <<>> THEN char_weights
    ELSE AddRanges(SliceAdd(char_weights, Head(ranges)[1], Head(ranges)[2],
                            weight),
                   Tail(ranges), weight)

RECURSIVE SetRanges(_, _, _)
SetRanges(char_weights, ranges, weight) ==
    IF ranges = <<>> THEN char_weights
    ELSE SetRanges(SliceSet(char_weights, Head(ranges)[1], Head(ranges)[2],
                            weight),
                   Tail(ranges), weight)

EntryWeight(entry, preserve_density) ==
    IF preserve_density
        THEN (entry[3] * DensityScale) \div CoveredChars(entry)
        ELSE entry[3] * DensityScale

RECURSIVE AddEntries(_, _, _)
AddEntries(char_weights, entries, preserve_density) ==
    IF entries = <<>> THEN char_weights
    ELSE AddEntries(AddRanges(char_weights, Head(entries)[2],
                              EntryWeight(Head(entries), preserve_density)),
                    Tail(entries), preserve_density)

RECURSIVE SetEntries(_, _, _)
SetEntries(char_weights, entries, preserve_density) ==
    IF entries = <<>> THEN char_weights
    ELSE SetEntries(SetRanges(char_weights, Head(entries)[2],
                              EntryWeight(Head(entries), preserve_density)),
                    Tail(entries), preserve_density)

\* the merger with '=' in place of '+=': a later entry overwrites
get_char_weights_overwrite(ws, preserve_density) ==
    SetEntries([i \in 1..Len(ws.document) |-> 0], ws.weighted_spans,
               preserve_density)

\* the Span Merger: dense per-character weights of one WeightedSpans
get_char_weights(ws, preserve_density) ==
    AddEntries([i \in 1..Len(ws.document) |-> 0], ws.weighted_spans,
               preserve_density)

\* ---------------------------------------------------- span merger: inputs
DocChars == <<"a", "<", "b", "&">>

Document(n) == [i \in 1..n |-> DocChars[((i - 1) % Len(DocChars)) + 1]]

Ranges(n) == {r \in (0..n) \X (0..n) : r[1] < r[2]}

\* the occurrences of one token: one range, or two that do not overlap
RangeLists(n) ==
    {<<r>> : r \in Ranges(n)} \cup
    {l \in Ranges(n) \X Ranges(n) : l[1][2] <= l[2][1]}

EntriesOf(n) ==
    {<<SubSeq(Document(n), l[1][1] + 1, l[1][2]), l, w>> :
        l \in RangeLists(n), w \in {-1, 1, MaxWeight}}

MergeSpanSets ==
    UNION {[analyzer : {"char"},
            document : {Document(n)},
            weighted_spans : SeqsUpTo(EntriesOf(n), MaxEntries),
            vec_name : {""}] : n \in 0..MaxDocLen}

InitMerge ==
    /\ pc = "start"
    /\ expl = BaseExplanation
    /\ args \in [ws : MergeSpanSets, preserve_density : BOOLEAN]
    /\ out = Ok(None)

GetCharWeights ==
    /\ pc = "start"
    /\ pc' = "get_char_weights"
    /\ out' = Ok(get_char_weights(args.ws, args.preserve_density))
    /\ UNCHANGED <<expl, args>>

NextMerge == GetCharWeights

SpecMerge == InitMerge /\ [][NextMerge]_vars

\* -------------------------------------------------------- span preparer
\* max of a set of non-negative numbers, 0 when it is empty
max_or_0(S) == IF S = {} THEN 0 ELSE CHOOSE m \in S : \A x \in S : x <= m

\* the range the Span Preparer falls back to when every weight is zero
WeightRangeEpsilon == 1

\* "if t.weighted_spans": neither None nor an empty list
HasSpans(t) == t.weighted_spans # None

targets_char_weights(targets, preserve_density) ==
    [t \in DOMAIN targets |->
        IF HasSpans(targets[t])
            THEN [k \in DOMAIN targets[t].weighted_spans |->
                     get_char_weights(targets[t].weighted_spans[k],
                                      preserve_density)]
            ELSE None]

\* max absolute merged character weight of one span-set
LocalRange(char_weights) ==
    max_or_0({Abs(char_weights[i]) : i \in DOMAIN char_weights})

\* the range of the idx-th span-set, taken over the targets that have one
SharedRange(tcw, idx) ==
    LET m == max_or_0({LocalRange(tcw[t][idx]) :
                 t \in {u \in DOMAIN tcw :
                           tcw[u] # None /\ idx <= Len(tcw[u])}})
    IN  IF m = 0 THEN WeightRangeEpsilon * DensityScale ELSE m

\* the preparer with every span-set normalised by its own range only
prepare_weighted_spans_local(targets, preserve_density) ==
    LET tcw == targets_char_weights(targets, preserve_density)
    IN  [t \in DOMAIN targets |->
            IF tcw[t] = None THEN None
            ELSE [k \in DOMAIN tcw[t] |->
                    [weighted_spans |-> targets[t].weighted_spans[k],
                     char_weights |-> tcw[t][k],
                     weight_range |->
                        IF LocalRange(tcw[t][k]) = 0
                            THEN WeightRangeEpsilon * DensityScale
                            ELSE LocalRange(tcw[t][k])]]]

\* the Span Preparer: PreparedWeightedSpans per target and span-set
prepare_weighted_spans(targets, preserve_density) ==
    LET tcw == targets_char_weights(targets, preserve_density)
    IN  [t \in DOMAIN targets |->
            IF tcw[t] = None THEN None
            ELSE [k \in DOMAIN tcw[t] |->
                    [weighted_spans |-> targets[t].weighted_spans[k],
                     char_weights |-> tcw[t][k],
                     weight_range |-> SharedRange(tcw, k)]]]

\* ---------------------------------------------------------- html renderer
\* cgi.escape(text, quote=True) on one character
html_escape(text) ==
    CASE text = "&" -> "&amp;"
      [] text = "<" -> "&lt;"
      [] text = ">" -> "&gt;"
      [] text = "\"" -> "&quot;"
      [] OTHER -> text

\* 'hsl({}, {:.2%}, {:.2%})': the percentages in 1/100 of a percent
format_hsl(hsl_color) ==
    <<"hsl", hsl_color[1], hsl_color[2] * 10000, hsl_color[3] * 10>>

\* the <span> of one character: its styles and, for a non-zero weight, the
\* weight in the title
_colorize(token, weight, weight_range) ==
    LET opacity == _weight_opacity(weight, weight_range)
        color == weight_color_hsl(weight, weight_range, 600)
    IN  IF weight = 0
            THEN IF Raised(opacity) THEN Raise(opacity.exc)
                 ELSE Ok([token |-> html_escape(token),
                          opacity |-> opacity.val])
        ELSE IF Raised(color) THEN Raise(color.exc)
        ELSE IF Raised(opacity) THEN Raise(opacity.exc)
        ELSE Ok([token |-> html_escape(token),
                 color |-> format_hsl(color.val),
                 opacity |-> opacity.val, title |-> weight])

\* a comprehension over results raises when one of them does
AllOk(results) ==
    IF \E i \in DOMAIN results : Raised(results[i])
        THEN Raise(results[CHOOSE i \in DOMAIN results :
                               /\ Raised(results[i])
                               /\ \A j \in 1..(i - 1) : ~Raised(results[j])
                           ].exc)
        ELSE Ok([i \in DOMAIN results |-> results[i].val])

\* zip(document, char_weights) stops at the shorter of the two
render_weighted_spans_with(pws, weight_range) ==
    LET n == IF Len(pws.weighted_spans.document) <= Len(pws.char_weights)
                 THEN Len(pws.weighted_spans.document)
                 ELSE Len(pws.char_weights)
    IN  AllOk([i \in 1..n |->
                  _colorize(pws.weighted_spans.document[i],
                            pws.char_weights[i], weight_range)])

\* the renderer colouring each span-set against its own largest weight
render_weighted_spans_own_range(pws) ==
    render_weighted_spans_with(pws, LocalRange(pws.char_weights))

render_weighted_spans(pws) ==
    render_weighted_spans_with(pws, pws.weight_range)

\* '<br/>'.join(...) of one target: the pieces that the <br/> separate,
\* each the bold vec_name label (if any) and the coloured characters
RenderList(pws_lst) ==
    AllOk([k \in DOMAIN pws_lst |->
        LET spans == render_weighted_spans(pws_lst[k])
        IN  IF Raised(spans) THEN spans
            ELSE Ok([label |-> pws_lst[k].weighted_spans.vec_name,
                     spans |-> spans.val])])

\* the non-empty elements of s
RECURSIVE DropNone(_)
DropNone(s) ==
    IF s = <<>> THEN <<>>
    ELSE IF Head(s) = None THEN DropNone(Tail(s))
    ELSE <<Head(s)>> \o DropNone(Tail(s))

RenderedTargets(targets, preserve_density) ==
    LET prepared == prepare_weighted_spans(targets, preserve_density)
    IN  AllOk([t \in DOMAIN prepared |->
                  IF prepared[t] # None THEN RenderList(prepared[t])
                                        ELSE Ok(None)])

\* the renderer leaving out the targets that have no spans
render_targets_weighted_spans_skip(targets, preserve_density) ==
    LET rendered == RenderedTargets(targets, preserve_density)
    IN  IF Raised(rendered) THEN rendered ELSE Ok(DropNone(rendered.val))

\* per target: None, or the rendering of its span-sets
render_targets_weighted_spans(targets, preserve_density) ==
    RenderedTargets(targets, preserve_density)

\* ---------------------------------------------------------- feature names
\* A feature name is [kind |-> "plain", name |-> s],
\* [kind |-> "formatted", name |-> s] (a FormattedFeatureName) or
\* [kind |-> "hashed", candidates |-> <<[name |-> s, sign |-> 1 or -1]>>].
\* A formatted name is the sequence of the strings it is made of.

\* replace_spaces on the names used here: only " b" has a boundary space
replace_spaces(name, space) ==
    IF name = " b" THEN <<space, "b">> ELSE <<name>>

\* cgi.escape on a whole name
EscapeName(name) ==
    CASE name = "a<c" -> "a&lt;c"
      [] OTHER -> name

\* format_signed: '(-)' before the name of a candidate of negative sign
format_signed(candidate, formatted_name) ==
    <<IF candidate.sign > 0 THEN "" ELSE "(-)">> \o formatted_name

RECURSIVE JoinWith(_, _)
JoinWith(parts, sep) ==
    IF parts = <<>> THEN <<>>
    ELSE IF Len(parts) = 1 THEN Head(parts)
    ELSE Head(parts) \o <<sep>> \o JoinWith(Tail(parts), sep)

\* the Python 2 spellings of _SPACE and _ELLIPSIS
_SPACE == "_"

_ELLIPSIS == "..."

_format_single_feature_text(feature, hl_spaces) ==
    IF hl_spaces THEN replace_spaces(feature, _SPACE) ELSE <<feature>>

\* text.py, with only the first candidate and an ellipsis for the others
_format_unhashed_feature_text_first(name, hl_spaces) ==
    IF name = <<>> THEN <<>>
    ELSE format_signed(name[1],
                       _format_single_feature_text(name[1].name, hl_spaces))
         \o (IF Len(name) > 1 THEN <<_ELLIPSIS>> ELSE <<>>)

\* text.py: every candidate, joined by ' | '
_format_unhashed_feature_text(name, hl_spaces) ==
    JoinWith([k \in DOMAIN name |->
                 format_signed(name[k],
                     _format_single_feature_text(name[k].name, hl_spaces))],
             " | ")

\* text.py (a bytes name is taken as already decoded)
_format_feature_text(name, hl_spaces) ==
    CASE name.kind = "formatted" -> <<name.name>>
      [] name.kind = "hashed" ->
             _format_unhashed_feature_text(name.candidates, hl_spaces)
      [] OTHER -> _format_single_feature_text(name.name, hl_spaces)

\* html.py: the escaped name, boundary spaces as styled <span>s
_format_single_feature_html(feature, weight, hl_spaces) ==
    IF ~hl_spaces THEN <<EscapeName(feature)>>
    ELSE replace_spaces(EscapeName(feature),
                        IF _hue(weight) = 120
                            THEN "<span hsl(120, 80%, 70%)>&emsp;</span>"
                            ELSE "<span hsl(0, 80%, 70%)>&emsp;</span>")

TitleOpen == " <span title=\""

TitleClose == "\">&hellip;</span>"

\* html.py: the first candidate, the others in the title of an ellipsis
_format_unhashed_feature_html(feature, weight, hl_spaces) ==
    IF feature = <<>> THEN <<>>
    ELSE LET first == feature[1]
             rest == Tail(feature)
             html == format_signed(first,
                         _format_single_feature_html(first.name, weight,
                                                     hl_spaces))
         IN  IF rest # <<>>
                 THEN html \o <<TitleOpen>>
                      \o JoinWith([k \in DOMAIN rest |->
                                      format_signed(rest[k],
                                          <<EscapeName(rest[k].name)>>)],
                                  "\n")
                      \o <<TitleClose>>
                 ELSE html

_format_feature_html(feature, weight, hl_spaces) ==
    CASE feature.kind = "formatted" -> <<feature.name>>
      [] feature.kind = "hashed" ->
             _format_unhashed_feature_html(feature.candidates, weight,
                                           hl_spaces)
      [] OTHER -> _format_single_feature_html(feature.name, weight, hl_spaces)

\* Max absolute feature weight of the pos and neg rows
get_weight_range(weights) ==
    max_or_0({Abs(weights.pos[i].weight) : i \in DOMAIN weights.pos}
             \cup {Abs(weights.neg[i].weight) : i \in DOMAIN weights.neg})

\* the merged "other" weights of a target are not looked into here: one
\* opaque value per target
merge_weighted_spans_others(t) == <<"others", t.target>>

Min(a, b) == IF a <= b THEN a ELSE b

\* list(zip(a, b, c))
Zip3(a, b, c) ==
    [i \in 1..Min(Len(a), Min(Len(b), Len(c))) |-> <<a[i], b[i], c[i]>>]

HtmlContext(explanation, show, layout, rendered_weighted_spans) ==
    LET targets == explanation.targets
        weighted_spans_others ==
            [t \in DOMAIN targets |-> merge_weighted_spans_others(targets[t])]
        \* the rows of the optional feature importances
        importances == IF explanation.feature_importances = None THEN <<>>
                       ELSE explanation.feature_importances[1].importances
    IN  [show |-> show,
         expl |-> explanation,
         horizontal_layout |-> layout,
         any_weighted_spans |-> \E t \in DOMAIN targets :
                                    HasSpans(targets[t]),
         feat_imp_weight_range |->
             max_or_0({Abs(importances[i].weight) :
                          i \in DOMAIN importances}),
         target_weight_range |->
             max_or_0({get_weight_range(targets[t].feature_weights) :
                          t \in DOMAIN targets}),
         targets_with_weighted_spans |->
             Zip3(targets, rendered_weighted_spans, weighted_spans_others)]

\* format_as_html with the layout forced vertical unless there are several
\* targets
format_as_html_multi_only(explanation, show, preserve_density, horizontal_layout) ==
    LET rendered == render_targets_weighted_spans(explanation.targets,
                                                  preserve_density)
    IN  IF Raised(rendered) THEN rendered
        ELSE Ok(HtmlContext(explanation, show,
                    IF Len(explanation.targets) <= 1 THEN FALSE
                    ELSE horizontal_layout,
                    rendered.val))

\* the context format_as_html hands to the template explain.html, or the
\* exception it raises.  Left out of the context: the constant style
\* strings, the arguments handed through unchanged (include_styles,
\* force_weights, hl_spaces) and other_weight_range.
format_as_html(explanation, show, preserve_density, horizontal_layout) ==
    LET targets == explanation.targets
        layout == IF Len(targets) = 1 THEN FALSE ELSE horizontal_layout
        rendered_weighted_spans ==
            render_targets_weighted_spans(targets, preserve_density)
    IN  IF Raised(rendered_weighted_spans) THEN rendered_weighted_spans
        ELSE Ok(HtmlContext(explanation, show, layout,
                            rendered_weighted_spans.val))

\* ------------------------------------------------- explanations: inputs
NoFeatureWeights ==
    [pos |-> <<>>, neg |-> <<>>, pos_remaining |-> 0, neg_remaining |-> 0]

Target(name, feature_weights, weighted_spans) ==
    [target |-> name, proba |-> None, score |-> None,
     feature_weights |-> feature_weights,
     weighted_spans |-> weighted_spans]

\* most targets of one explanation
MaxTargets == 2

\* most WeightedSpans of one target
MaxSpanSets == 1

TargetNames == <<"one", "two", "three", "four">>

WS(document, weighted_spans, vec_name) ==
    [analyzer |-> "char", document |-> document,
     weighted_spans |-> weighted_spans, vec_name |-> vec_name]

\* span-sets of one vectorizer, of local range 0 (a document without
\* entries), MaxWeight and 1
SampleSpanSets ==
    {WS(Document(1), <<>>, "vec"),
     WS(Document(2), << <<Document(2), <<<<0, 2>>>>, -MaxWeight>>,
                        <<SubSeq(Document(2), 1, 1), <<<<0, 1>>>>, 1>> >>,
        "vec"),
     WS(Document(2), << <<SubSeq(Document(2), 1, 1), <<<<0, 1>>>>, 1>> >>,
        "vec")}

\* one target whose only span-set has a zero-length document
EmptyDocumentTargets ==
    << Target("one", NoFeatureWeights, << WS(Document(0), <<>>, "") >>) >>

SpanTargetLists ==
    UNION {
        {[t \in 1..n |-> Target(TargetNames[t], NoFeatureWeights, w[t])] :
            w \in [1..n -> SeqsUpTo(SampleSpanSets, MaxSpanSets)]}
        : n \in 0..MaxTargets}

\* the targets of test_prepare_weighted_spans, weights in units of 0.5
TestTargets ==
    << Target("one", NoFeatureWeights,
          << WS(<<"a", "b">>,
                << <<<<"a">>, <<<<0, 1>>>>, 3>>, <<<<"b">>, <<<<1, 2>>>>, 5>> >>,
                ""),
             WS(<<"x", "y">>, << <<<<"x", "y">>, <<<<0, 2>>>>, -9>> >>, "") >>),
       Target("two", NoFeatureWeights,
          << WS(<<"a", "b", "c">>,
                << <<<<"a">>, <<<<0, 1>>>>, 1>>, <<<<"c">>, <<<<2, 3>>>>, 7>> >>,
                ""),
             WS(<<"x", "z">>, << <<<<"x", "z">>, <<<<0, 2>>>>, 3>> >>, "") >>) >>

\* one target whose span-set has a character within 2.5% of the range:
\* weights 49 and 50 on the two characters of the document
NearRangeTargets ==
    << Target("one", NoFeatureWeights,
          << WS(<<"a", "b">>,
                << <<<<"a">>, <<<<0, 1>>>>, 49>>,
                   <<<<"b">>, <<<<1, 2>>>>, -50>> >>,
                "") >>) >>

InitSpans ==
    /\ pc = "start"
    /\ expl \in {[BaseExplanation EXCEPT !.targets = t] :
                    t \in SpanTargetLists
                            \cup {TestTargets, EmptyDocumentTargets,
                                  NearRangeTargets}}
    /\ args \in [show : {ALL}, preserve_density : BOOLEAN]
    /\ out = Ok(None)

PrepareWeightedSpans ==
    /\ pc = "start"
    /\ pc' = "prepare_weighted_spans"
    /\ out' = Ok(prepare_weighted_spans(expl.targets,
                                        args.preserve_density))
    /\ UNCHANGED <<expl, args>>

RenderTargetsWeightedSpans ==
    /\ pc = "start"
    /\ pc' = "render_targets_weighted_spans"
    /\ out' = render_targets_weighted_spans(
                  expl.targets,
                  args.preserve_density)
    /\ UNCHANGED <<expl, args>>

FormatAsHtml ==
    /\ pc = "start"
    /\ \E horizontal_layout \in BOOLEAN :
          /\ args' = [show |-> args.show,
                      preserve_density |-> args.preserve_density,
                      horizontal_layout |-> horizontal_layout]
          /\ out' = format_as_html(expl, args.show, args.preserve_density,
                                   horizontal_layout)
    /\ pc' = "format_as_html"
    /\ UNCHANGED expl

NextSpans ==
    \/ PrepareWeightedSpans
    \/ RenderTargetsWeightedSpans
    \/ FormatAsHtml

SpecSpans == InitSpans /\ [][NextSpans]_vars

\* ---------------------------------------------------------- text renderer
\* The text is the sequence of its lines ('\n'.join(lines), read line by
\* line).  A line is a record: the block it belongs to, what it is, the
\* target it is about, its strings and its number.
Line(block, kind, target, text, num) ==
    [block |-> block, kind |-> kind, target |-> target, text |-> text,
     num |-> num]

\* the lines of one string appended to lines: '' is one empty line
JoinLines(block, target, table_lines) ==
    IF table_lines = <<>> THEN <<Line(block, "blank", target, <<>>, 0)>>
    ELSE table_lines

_error_lines(explanation) ==
    <<Line("error", "error", "", <<"Error: ", explanation.error>>, 0)>>

_method_lines(explanation) ==
    <<Line("method", "method", "",
           <<"Explained as: ", explanation.method>>, 0)>>

_description_lines(explanation) ==
    <<Line("description", "description", "",
           <<explanation.description>>, 0)>>

_format_remaining(block, target, remaining, kind) ==
    Line(block, "remaining", target,
         <<_ELLIPSIS, " more ", kind, _ELLIPSIS>>, remaining)

_PLUS_MINUS == "+-"

\* one line per importance: the weight, '+- 2 * std' if there is a std,
\* and the feature
_fi_lines(feature_importances, hl_spaces) ==
    [i \in DOMAIN feature_importances.importances |->
        LET fw == feature_importances.importances[i]
            featname == _format_feature_text(fw.feature, hl_spaces)
        IN  Line("feature_importances", "row", "",
                 IF fw.std = None THEN featname
                 ELSE <<_PLUS_MINUS>> \o featname,
                 fw.weight)]

_feature_importances_lines(explanation, hl_spaces) ==
    _fi_lines(explanation.feature_importances[1], hl_spaces)
    \o (IF explanation.feature_importances[1].remaining # 0
            THEN <<_format_remaining("feature_importances", "",
                       explanation.feature_importances[1].remaining, "")>>
            ELSE <<>>)

_decision_tree_lines(explanation) ==
    <<Line("decision_tree", "blank", "", <<>>, 0),
      Line("decision_tree", "tree", "", <<explanation.decision_tree>>, 0)>>

_transition_features_lines(explanation) ==
    <<Line("transition_features", "blank", "", <<>>, 0),
      Line("transition_features", "title", "",
           <<"Transition features:">>, 0),
      Line("transition_features", "table", "",
           explanation.transition_features[1].class_names, 0),
      Line("transition_features", "blank", "", <<>>, 0)>>

_format_scores(proba, score) ==
    (IF proba # None THEN <<"probability=">> ELSE <<>>)
    \o (IF score # None THEN <<"score=">> ELSE <<>>)

\* any feature weight of any target carries a value
has_any_values_for_weights(explanation) ==
    \E t \in DOMAIN explanation.targets :
        LET w == explanation.targets[t].feature_weights
        IN  \/ \E i \in DOMAIN w.pos : w.pos[i].value # None
            \/ \E i \in DOMAIN w.neg : w.neg[i].value # None

\* lst[:-n] as Python slices it: -0 is 0, so n = 0 gives the empty list
SliceBeforeLast(lst, n) ==
    IF n = 0 THEN <<>>
    ELSE IF n >= Len(lst) THEN <<>>
    ELSE SubSeq(lst, 1, Len(lst) - n)

\* lst[-n:] as Python slices it: n = 0 gives the whole list
SliceLast(lst, n) ==
    IF n = 0 THEN lst
    ELSE IF n >= Len(lst) THEN lst
    ELSE SubSeq(lst, Len(lst) - n + 1, Len(lst))

\* the lines of the block of one target
TargetLines(explanation, target, hl_spaces) ==
    LET name == target.target
        has_values_for_weights == has_any_values_for_weights(explanation)
        header == Line("targets", "header", name,
                       <<IF ~explanation.is_regression THEN "y=" ELSE "">>
                           \o _format_scores(target.proba, target.score)
                           \o <<" top features">>, 0)
        table_header ==
            Line("targets", "table_header", name,
                 IF has_values_for_weights
                     THEN <<"Contribution", "Feature", "Value">>
                     ELSE <<"Weight", "Feature">>, 0)
        separator == Line("targets", "separator", name, <<>>, 0)
        w == target.feature_weights
        rows == w.pos \o w.neg
        \* tabulate(...).split('\n'): headers, separator, one line per row
        tabulated == <<table_header, separator>> \o
                     [i \in DOMAIN rows |->
                         Line("targets", "row", name,
                              _format_feature_text(rows[i].feature,
                                                   hl_spaces),
                              rows[i].weight)]
        table == <<tabulated[2]>> \o tabulated
        pos_table == JoinLines("targets", name,
                               SliceBeforeLast(table, Len(w.neg)))
        neg_table == JoinLines("targets", name,
                               SliceLast(table, Len(w.neg)))
    IN  <<header>> \o pos_table
        \o (IF w.pos_remaining # 0
                THEN <<_format_remaining("targets", name, w.pos_remaining,
                                         "positive ")>>
                ELSE <<>>)
        \o (IF w.neg_remaining # 0
                THEN <<_format_remaining("targets", name, w.neg_remaining,
                                         "negative ")>>
                ELSE <<>>)
        \o neg_table
        \o <<Line("targets", "blank", name, <<>>, 0)>>

RECURSIVE Concat(_)
Concat(seqs) ==
    IF seqs = <<>> THEN <<>> ELSE Head(seqs) \o Concat(Tail(seqs))

Reverse(s) == [i \in DOMAIN s |-> s[Len(s) + 1 - i]]

\* _targets_lines going through the targets from the last to the first
_targets_lines_reversed(explanation, hl_spaces) ==
    Concat([t \in DOMAIN explanation.targets |->
               TargetLines(explanation,
                           Reverse(explanation.targets)[t], hl_spaces)])

_targets_lines(explanation, hl_spaces) ==
    Concat([t \in DOMAIN explanation.targets |->
               TargetLines(explanation, explanation.targets[t], hl_spaces)])

\* "if not getattr(expl, key, None)"
FieldIsSet(explanation, key) ==
    CASE key = "method" -> explanation.method # ""
      [] key = "description" -> explanation.description # ""
      [] key = "transition_features" ->
             explanation.transition_features # None
      [] key = "targets" -> explanation.targets # None
      [] key = "feature_importances" ->
             explanation.feature_importances # None
      [] key = "decision_tree" -> explanation.decision_tree # ""
      [] OTHER -> FALSE

\* the body of the loop over show for one key
KeyLines(explanation, key, highlight_spaces) ==
    IF ~FieldIsSet(explanation, key) THEN <<>>
    ELSE CASE key = "method" -> _method_lines(explanation)
           [] key = "description" -> _description_lines(explanation)
           [] key = "transition_features" ->
                  _transition_features_lines(explanation)
           [] key = "targets" ->
                  _targets_lines(explanation, highlight_spaces)
           [] key = "feature_importances" ->
                  _feature_importances_lines(explanation, highlight_spaces)
           [] key = "decision_tree" -> _decision_tree_lines(explanation)
           [] OTHER -> <<>>

\* the keys of fields.ALL that s contains, in the order of fields.ALL
InOrderOfALL(s) ==
    LET F[i \in 0..Len(ALL)] ==
            IF i = 0 THEN <<>>
            ELSE IF ALL[i] \in Range(s) THEN F[i - 1] \o <<ALL[i]>>
            ELSE F[i - 1]
    IN  F[Len(ALL)]

FormatLines(explanation, keys, highlight_spaces) ==
    (IF explanation.error # "" THEN _error_lines(explanation) ELSE <<>>)
    \o Concat([k \in DOMAIN keys |->
                  KeyLines(explanation, keys[k], highlight_spaces)])

\* format_as_text emitting the blocks in the order of fields.ALL
format_as_text_fixed_order(explanation, show, highlight_spaces) ==
    FormatLines(explanation, InOrderOfALL(show), highlight_spaces)

format_as_text(explanation, show, highlight_spaces) ==
    FormatLines(explanation, show, highlight_spaces)

\* ------------------------------------------------ feature names: inputs
\* most candidates of a hashed feature
MaxCandidates == 3

FeatureNameStrings == {"a", " b", "a<c"}

Candidates == [name : FeatureNameStrings, sign : {1, -1}]

HashedFeatures ==
    {[kind |-> "hashed", candidates |-> c] :
        c \in SeqsUpTo(Candidates, MaxCandidates)}

PlainFeatures ==
    {[kind |-> k, name |-> n] :
        k \in {"plain", "formatted"}, n \in FeatureNameStrings}

InitFeature ==
    /\ pc = "start"
    /\ expl = BaseExplanation
    /\ \E f \in HashedFeatures \cup PlainFeatures :
       \E w \in {-1, 1} : \E hl \in BOOLEAN :
          args = [feature |-> f, weight |-> w, hl_spaces |-> hl]
    /\ out = Ok(None)

FormatFeatureText ==
    /\ pc = "start"
    /\ pc' = "text._format_feature"
    /\ out' = Ok(_format_feature_text(args.feature, args.hl_spaces))
    /\ UNCHANGED <<expl, args>>

FormatFeatureHtml ==
    /\ pc = "start"
    /\ pc' = "html._format_feature"
    /\ out' = Ok(_format_feature_html(args.feature, args.weight,
                                      args.hl_spaces))
    /\ UNCHANGED <<expl, args>>

NextFeature == FormatFeatureText \/ FormatFeatureHtml

SpecFeature == InitFeature /\ [][NextFeature]_vars

\* ------------------------------------------------- text renderer: inputs
\* longest selection list show
MaxShow == 2

FeatureWeight(feature, weight) ==
    [feature |-> feature, weight |-> weight, value |-> None, std |-> None]

PlainName(n) == [kind |-> "plain", name |-> n]

\* the two targets of test_sklearn_targets, one feature row each side
TwoTargets ==
    [i \in 1..2 |->
        Target(<<"rainy", "sunny">>[i],
               [pos |-> <<FeatureWeight(PlainName("a"), MaxWeight)>>,
                neg |-> <<FeatureWeight(PlainName(" b"), -1)>>,
                pos_remaining |-> 0, neg_remaining |-> 0],
               None)]

FieldExplanations ==
    [error : {"", "failed"},
     method : {"", "linear model"},
     description : {"", "Features with largest coefficients."},
     is_regression : {FALSE},
     targets : {None, TwoTargets},
     feature_importances :
         {None,
          <<[importances |-> <<FeatureWeight(PlainName("a"), 1)>>,
             remaining |-> 1]>>},
     decision_tree : {"", "tree"},
     transition_features :
         {None, <<[class_names |-> <<"rainy", "sunny">>]>>}]

InitText ==
    /\ pc = "start"
    /\ expl \in FieldExplanations
    /\ args \in [show : SeqsUpTo(Range(ALL), MaxShow),
                 highlight_spaces : {FALSE}]
    /\ out = Ok(None)

FormatAsText ==
    /\ pc = "start"
    /\ pc' = "format_as_text"
    /\ out' = Ok(format_as_text(expl, args.show, args.highlight_spaces))
    /\ UNCHANGED <<expl, args>>

NextText == FormatAsText

SpecText == InitText /\ [][NextText]_vars

\* targets named as in test_sklearn_targets, with and without positive
\* and negative rows and remaining counts
TextTargets ==
    {Target(name,
            [pos |-> pos, neg |-> neg,
             pos_remaining |-> pr, neg_remaining |-> nr], None) :
        name \in {"rainy", "sunny"},
        pos \in {<<>>, <<FeatureWeight(PlainName("a"), MaxWeight)>>},
        neg \in {<<>>, <<FeatureWeight(PlainName(" b"), -1)>>},
        pr \in {0, 2}, nr \in {0, 3}}

InitFormat ==
    /\ pc = "start"
    /\ expl \in {[BaseExplanation EXCEPT !.targets = t] :
                    t \in SeqsUpTo(TextTargets, MaxTargets)}
    /\ args \in [show : {ALL}, highlight_spaces : BOOLEAN,
                 preserve_density : {FALSE}]
    /\ out = Ok(None)

FormatTargetsAsText ==
    /\ pc = "start"
    /\ pc' = "format_as_text"
    /\ out' = Ok(format_as_text(expl, args.show, args.highlight_spaces))
    /\ UNCHANGED <<expl, args>>

FormatTargetsAsHtml ==
    /\ pc = "start"
    /\ \E horizontal_layout \in BOOLEAN :
          /\ args' = [show |-> args.show,
                      highlight_spaces |-> args.highlight_spaces,
                      preserve_density |-> args.preserve_density,
                      horizontal_layout |-> horizontal_layout]
          /\ out' = format_as_html(expl, args.show, args.preserve_density,
                                   horizontal_layout)
    /\ pc' = "format_as_html"
    /\ UNCHANGED expl

NextFormat == FormatTargetsAsText \/ FormatTargetsAsHtml

SpecFormat == InitFormat /\ [][NextFormat]_vars

\* ------------------------------------------------ colour encoder: inputs
\* largest weight_range handed to the colour encoder on its own
MaxColorRange == 6

\* weight_range "is the max absolute weight" (docstring of weight_color_hsl)
ColorArgs ==
    {a \in [weight : (-MaxColorRange)..MaxColorRange,
            weight_range : 1..MaxColorRange,
            min_lightness : {800, 600}] : Abs(a.weight) <= a.weight_range}

InitColor ==
    /\ pc = "start"
    /\ expl = BaseExplanation
    /\ args \in ColorArgs
    /\ out = Ok(None)

WeightColorHsl ==
    /\ pc = "start"
    /\ pc' = "weight_color_hsl"
    /\ out' = weight_color_hsl(args.weight, args.weight_range,
                               args.min_lightness)
    /\ UNCHANGED <<expl, args>>

WeightOpacity ==
    /\ pc = "start"
    /\ pc' = "_weight_opacity"
    /\ out' = _weight_opacity(args.weight, args.weight_range)
    /\ UNCHANGED <<expl, args>>

NextColor == WeightColorHsl \/ WeightOpacity

SpecColor == InitColor /\ [][NextColor]_vars

\* longest list of remaining rows
MaxRemaining == 2

RemainingArgs ==
    [ws : SeqsUpTo((-MaxWeight)..MaxWeight, MaxRemaining),
     weight_range : 0..MaxWeight,
     pos_neg : {"pos", "neg"}]

InitRemaining ==
    /\ pc = "start"
    /\ expl = BaseExplanation
    /\ args \in RemainingArgs
    /\ out = Ok(None)

RemainingWeightColorHsl ==
    /\ pc = "start"
    /\ pc' = "remaining_weight_color_hsl"
    /\ out' = remaining_weight_color_hsl(args.ws, args.weight_range,
                                         args.pos_neg)
    /\ UNCHANGED <<expl, args>>

NextRemaining == RemainingWeightColorHsl

SpecRemaining == InitRemaining /\ [][NextRemaining]_vars

C7_Remaining ==
    pc = "remaining_weight_color_hsl" =>
        LET sign == IF args.pos_neg = "pos" THEN 1 ELSE -1
        IN  /\ ~Raised(out)
            /\ (args.weight_range = 0
                    => out.val = weight_color_hsl(sign, 1, 800).val)
            /\ (args.ws = <<>> /\ args.weight_range # 0
                    => out.val = weight_color_hsl(sign * args.weight_range,
                                                  args.weight_range, 800).val)
            /\ (args.ws # <<>> /\ args.weight_range # 0
                    => out.val = weight_color_hsl(MinByAbs(args.ws),
                                                  args.weight_range, 800).val)

\* ------------------------------------------------------------------- C4
\* an entry has a range that covers the 0-based character index i
Covers(entry, i) ==
    \E r \in DOMAIN entry[2] : entry[2][r][1] <= i /\ i < entry[2][r][2]

RECURSIVE SumOfCovering(_, _)
SumOfCovering(entries, i) ==
    IF entries = <<>> THEN 0
    ELSE (IF Covers(Head(entries), i) THEN Head(entries)[3] ELSE 0)
         + SumOfCovering(Tail(entries), i)

PreparedAt(prepared) ==
    UNION {{<<t, k>> : k \in DOMAIN prepared[t]} : t \in DOMAIN prepared}

PositiveOr(m) == IF m = 0 THEN WeightRangeEpsilon * DensityScale ELSE m

C3_Shape ==
    LET targets == expl.targets
    IN  /\ pc = "prepare_weighted_spans" =>
            /\ Len(out.val) = Len(targets)
            /\ \A t \in DOMAIN targets :
                  IF HasSpans(targets[t])
                      THEN /\ Len(out.val[t]) = Len(targets[t].weighted_spans)
                           /\ \A k \in DOMAIN out.val[t] :
                                 out.val[t][k].weighted_spans =
                                     targets[t].weighted_spans[k]
                      ELSE out.val[t] = None
        /\ pc = "render_targets_weighted_spans" =>
            /\ ~Raised(out)
            /\ Len(out.val) = Len(targets)
            /\ \A t \in DOMAIN targets :
                  (out.val[t] = None) <=> ~HasSpans(targets[t])
        /\ pc = "format_as_html" =>
            /\ ~Raised(out)
            /\ Len(out.val.targets_with_weighted_spans) = Len(targets)
            /\ \A t \in DOMAIN targets :
                  LET pair == out.val.targets_with_weighted_spans[t]
                  IN  /\ pair[1] = targets[t]
                      /\ Len(pair[2]) = Len(targets[t].weighted_spans)
                      /\ \A k \in DOMAIN pair[2] :
                            /\ pair[2][k].label =
                                   targets[t].weighted_spans[k].vec_name
                            /\ Len(pair[2][k].spans) =
                                   Len(targets[t].weighted_spans[k].document)

\* format_as_html was applied to a target without spans followed by one
\* with spans: the second is paired with its rendering, the first with None
C3_Witness ==
    /\ pc = "format_as_html"
    /\ Len(expl.targets) = 2
    /\ ~HasSpans(expl.targets[1])
    /\ HasSpans(expl.targets[2])
    /\ out.val.targets_with_weighted_spans[1][2] = None
    /\ out.val.targets_with_weighted_spans[2][1] = expl.targets[2]
    /\ Len(out.val.targets_with_weighted_spans[2][2]) =
           Len(expl.targets[2].weighted_spans)

C6_MoreThanOne ==
    pc = "format_as_html" =>
        (out.val.horizontal_layout
            <=> (Len(expl.targets) > 1 /\ args.horizontal_layout))

\* C6 (amended): the layout handed to the template is horizontal exactly
\* when the number of targets is not one and the caller has not disabled
\* it; with a single target it is always vertical.
C6_NotOne ==
    pc = "format_as_html" =>
        (out.val.horizontal_layout
            <=> (Len(expl.targets) # 1 /\ args.horizontal_layout))

\* a single target was formatted with horizontal_layout=True and the
\* template got the vertical layout
C6_Witness ==
    /\ pc = "format_as_html"
    /\ Len(expl.targets) = 1
    /\ args.horizontal_layout
    /\ ~out.val.horizontal_layout

\* ------------------------------------------------------------------- C9
\* the first position of the string x in the formatted name s, 0 if none
IndexOf(s, x) ==
    IF \E i \in DOMAIN s : s[i] = x
        THEN CHOOSE i \in DOMAIN s :
                 s[i] = x /\ \A j \in 1..(i - 1) : s[j] # x
        ELSE 0

IsHashed == args.feature.kind = "hashed" /\ args.feature.candidates # <<>>

\* the rendered name starts with the first candidate: its sign mark, then
\* its name as this renderer shows a name
StartsWithFirst(rendered_name, shown_name) ==
    /\ rendered_name[1] =
           (IF args.feature.candidates[1].sign > 0 THEN "" ELSE "(-)")
    /\ ~args.hl_spaces => rendered_name[2] = shown_name

\* C9 as stated: a hashed feature renders as its first candidate plus an
\* ellipsis marker when further candidates exist; only HTML lists the
\* alternatives (in the title of the ellipsis), the text renderer shows
\* nothing after the first candidate but an ellipsis marker.
C9_TextOmitsAlternatives ==
    /\ (pc = "html._format_feature" /\ IsHashed) =>
          /\ (IndexOf(out.val, TitleOpen) # 0)
                 <=> (Len(args.feature.candidates) > 1)
          /\ IndexOf(out.val, "\n") = 0
                 \/ IndexOf(out.val, "\n") > IndexOf(out.val, TitleOpen)
    /\ (pc = "text._format_feature" /\ IsHashed) =>
          /\ StartsWithFirst(out.val, args.feature.candidates[1].name)
          /\ IndexOf(out.val, " | ") = 0
          /\ (IndexOf(out.val, _ELLIPSIS) # 0)
                 <=> (Len(args.feature.candidates) > 1)

\* the html rendering of the alternatives: everything between the opening
\* and the closing of the title
TitleOf(rendered_name) ==
    SubSeq(rendered_name, IndexOf(rendered_name, TitleOpen) + 1,
           Len(rendered_name) - 1)

\* C9 (amended): in HTML a hashed feature renders as its first candidate,
\* followed, exactly when further candidates exist, by an ellipsis whose
\* title lists all of them; the text renderer shows every candidate,
\* joined by ' | ', and no ellipsis marker.
C9_TextJoinsAll ==
    /\ (pc = "html._format_feature" /\ IsHashed) =>
          LET rest == Tail(args.feature.candidates)
          IN  /\ StartsWithFirst(out.val,
                      EscapeName(args.feature.candidates[1].name))
              /\ (IndexOf(out.val, TitleOpen) # 0) <=> (rest # <<>>)
              /\ rest # <<>> =>
                    /\ out.val[Len(out.val)] = TitleClose
                    /\ TitleOf(out.val) =
                           JoinWith([k \in DOMAIN rest |->
                                        <<IF rest[k].sign > 0 THEN ""
                                                              ELSE "(-)",
                                          EscapeName(rest[k].name)>>],
                                    "\n")
    /\ (pc = "text._format_feature" /\ IsHashed) =>
          /\ StartsWithFirst(out.val, args.feature.candidates[1].name)
          /\ IndexOf(out.val, _ELLIPSIS) = 0
          /\ Cardinality({i \in DOMAIN out.val : out.val[i] = " | "})
                 = Len(args.feature.candidates) - 1
          /\ ~args.hl_spaces =>
                \A k \in DOMAIN args.feature.candidates :
                    args.feature.candidates[k].name \in Range(out.val)

\* the text renderer formatted a hashed feature of three candidates and
\* the last candidate is in the result
C9_Witness ==
    /\ pc = "text._format_feature"
    /\ args.feature.kind = "hashed"
    /\ Len(args.feature.candidates) = 3
    /\ ~args.hl_spaces
    /\ args.feature.candidates[3].name # args.feature.candidates[1].name
    /\ out.val[Len(out.val)] = args.feature.candidates[3].name

\* ------------------------------------------------------------------- C1
\* C1: format_as_text returns first the error block if expl.error is set,
\* then, for each key of show in the order given, that key's block if and
\* only if the field of that name is set; an unset field contributes
\* nothing and the block of a key does not depend on the other keys.
C1_Blocks ==
    pc = "format_as_text" =>
        LET no_error == [expl EXCEPT !.error = ""]
            alone(key) == format_as_text(no_error, <<key>>,
                                         args.highlight_spaces)
        IN  /\ out.val =
                  (IF expl.error # ""
                       THEN <<Line("error", "error", "",
                                   <<"Error: ", expl.error>>, 0)>>
                       ELSE <<>>)
                  \o Concat([k \in DOMAIN args.show |-> alone(args.show[k])])
            /\ \A k \in DOMAIN args.show :
                  /\ (alone(args.show[k]) # <<>>)
                         <=> FieldIsSet(expl, args.show[k])
                  /\ \A i \in DOMAIN alone(args.show[k]) :
                         alone(args.show[k])[i].block = args.show[k]

\* an explanation with an error was formatted with show = (decision_tree,
\* method), the description being unset and not asked for: the error line
\* comes first, then the tree block, then the method line
C1_Witness ==
    /\ pc = "format_as_text"
    /\ expl.error # "" /\ expl.method # "" /\ expl.decision_tree # ""
    /\ args.show = <<"decision_tree", "method">>
    /\ Len(out.val) = 4
    /\ out.val[1].block = "error"
    /\ out.val[2].block = "decision_tree"
    /\ out.val[4].block = "method"

\* ------------------------------------------------------------------ C10
RECURSIVE SelectSeq2(_, _)
SelectSeq2(s, kind) ==
    IF s = <<>> THEN <<>>
    ELSE IF Head(s).kind = kind THEN <<Head(s)>> \o SelectSeq2(Tail(s), kind)
    ELSE SelectSeq2(Tail(s), kind)

\* C10: both renderers emit the per-target blocks in the order of
\* explanation.targets: the headers of the text follow that order, and so
\* do the entries of the HTML targets_with_weighted_spans.
C10_TargetOrder ==
    /\ pc = "format_as_text" =>
          LET headers == SelectSeq2(out.val, "header")
          IN  /\ Len(headers) = Len(expl.targets)
              /\ \A t \in DOMAIN expl.targets :
                    headers[t].target = expl.targets[t].target
    /\ pc = "format_as_html" =>
          /\ ~Raised(out)
          /\ Len(out.val.targets_with_weighted_spans) = Len(expl.targets)
          /\ \A t \in DOMAIN expl.targets :
                out.val.targets_with_weighted_spans[t][1] = expl.targets[t]

\* the targets (sunny, rainy) were formatted as text: the header of sunny
\* comes before the header of rainy
C10_Witness ==
    /\ pc = "format_as_text"
    /\ Len(expl.targets) = 2
    /\ expl.targets[1].target = "sunny" /\ expl.targets[2].target = "rainy"
    /\ \E i, j \in DOMAIN out.val :
          /\ i < j
          /\ out.val[i].kind = "header" /\ out.val[i].target = "sunny"
          /\ out.val[j].kind = "header" /\ out.val[j].target = "rainy"

\* ------------------------------------------------------------------ C11
\* the weight a rendered character was coloured with: a character of zero
\* weight carries no title
RenderedWeight(span) == IF "title" \in DOMAIN span THEN span.title ELSE 0

\* the rendered characters <<target, span-set, character>>
RenderedAt(rendered) ==
    UNION {UNION {{<<t, k, i>> : i \in DOMAIN rendered[t][k].spans}
                    : k \in DOMAIN rendered[t]}
             : t \in DOMAIN rendered}

\* opacity is 0.8 + 0.2 * (|weight| / weight_range) to the nearest 1/100
IsOpacityOf(opacity, weight, weight_range) ==
    2 * Abs(opacity * weight_range - (80 * weight_range + 20 * Abs(weight)))
        <= weight_range

\* no character weight of a prepared span-set exceeds its weight_range
WeightsWithinRange ==
    pc = "prepare_weighted_spans" =>
        \A p \in PreparedAt(out.val) :
            LET pws == out.val[p[1]][p[2]]
            IN  \A i \in DOMAIN pws.char_weights :
                    Abs(pws.char_weights[i]) <= pws.weight_range

\* what holds of the opacity of every rendered character, whatever is said
\* of the characters that reach 1.00
RenderedOpacity(at_full_opacity(_, _)) ==
    (pc = "render_targets_weighted_spans" /\ ~Raised(out)) =>
        LET prepared == prepare_weighted_spans(expl.targets,
                                               args.preserve_density)
        IN  \A c \in RenderedAt(out.val) :
                LET span == out.val[c[1]][c[2]].spans[c[3]]
                    weight == RenderedWeight(span)
                    weight_range == prepared[c[1]][c[2]].weight_range
                IN  /\ weight = prepared[c[1]][c[2]].char_weights[c[3]]
                    /\ IsOpacityOf(span.opacity, weight, weight_range)
                    /\ span.opacity \in 80..100
                    /\ weight = 0 => span.opacity = 80
                    /\ Abs(weight) = weight_range => span.opacity = 100
                    /\ span.opacity = 100 =>
                           at_full_opacity(weight, weight_range)

AtRange(weight, weight_range) == Abs(weight) = weight_range

RoundsToRange(weight, weight_range) ==
    40 * Abs(weight) >= 39 * weight_range

RECURSIVE TargetsBlock(_)
TargetsBlock(s) ==
    IF s = <<>> THEN <<>>
    ELSE IF Head(s).block = "targets"
        THEN <<Head(s)>> \o TargetsBlock(Tail(s))
    ELSE TargetsBlock(Tail(s))

FeatureRows(target, feature_weights, hl_spaces) ==
    [i \in DOMAIN feature_weights |->
        Line("targets", "row", target.target,
             _format_feature_text(feature_weights[i].feature, hl_spaces),
             feature_weights[i].weight)]

\* the block of one target as C12 lays it out
LaidOutBlock(explanation, target, hl_spaces) ==
    LET name == target.target
        w == target.feature_weights
        separator == Line("targets", "separator", name, <<>>, 0)
        table_header ==
            Line("targets", "table_header", name,
                 IF has_any_values_for_weights(explanation)
                     THEN <<"Contribution", "Feature", "Value">>
                     ELSE <<"Weight", "Feature">>, 0)
    IN  <<Line("targets", "header", name,
               <<IF ~explanation.is_regression THEN "y=" ELSE "">>
                   \o _format_scores(target.proba, target.score)
                   \o <<" top features">>, 0)>>
        \o <<separator, table_header, separator>>
        \o FeatureRows(target, w.pos, hl_spaces)
        \o (IF w.pos_remaining # 0
                THEN <<Line("targets", "remaining", name,
                            <<_ELLIPSIS, " more ", "positive ", _ELLIPSIS>>,
                            w.pos_remaining)>>
                ELSE <<>>)
        \o (IF w.neg_remaining # 0
                THEN <<Line("targets", "remaining", name,
                            <<_ELLIPSIS, " more ", "negative ", _ELLIPSIS>>,
                            w.neg_remaining)>>
                ELSE <<>>)
        \o FeatureRows(target, w.neg, hl_spaces)
        \o <<Line("targets", "blank", name, <<>>, 0)>>

LaidOut(explanation, hl_spaces) ==
    Concat([t \in DOMAIN explanation.targets |->
               LaidOutBlock(explanation, explanation.targets[t], hl_spaces)])

\* C12: for every target, whether its pos and neg lists are empty or not,
\* the block of the text is the header line, the table header with the rows
\* of the positive features, the 'more positive' line (if pos_remaining),
\* the 'more negative' line (if neg_remaining), the rows of the negative
\* features and an empty line; every table line appears once, no positive
\* row comes after a remainder line and no negative row before one.
C12_Layout ==
    pc = "format_as_text" =>
        TargetsBlock(out.val) = LaidOut(expl, args.highlight_spaces)

\* the same layout, where every target has a negative feature
C12_LayoutWithNegatives ==
    (/\ pc = "format_as_text"
     /\ \A t \in DOMAIN expl.targets :
            expl.targets[t].feature_weights.neg # <<>>) =>
        TargetsBlock(out.val) = LaidOut(expl, args.highlight_spaces)

\* a target with a positive row, no negative row and both remainders was
\* formatted
C12_NoNegatives ==
    /\ pc = "format_as_text"
    /\ Len(expl.targets) = 1
    /\ expl.targets[1].feature_weights.pos # <<>>
    /\ expl.targets[1].feature_weights.neg = <<>>
    /\ expl.targets[1].feature_weights.pos_remaining # 0
    /\ expl.targets[1].feature_weights.neg_remaining # 0

=============================================================================
